---------------------------- MODULE Spec2Model ----------------------------
(***************************************************************************)
(* Dynamic protocol form of qt_app: ProtocolBuilderQt (field bindings,    *)
(* hidden-field triggers, formula fields, reference ranges, load/collect) *)
(* together with the ProtocolArea actions that drive it and the protocol  *)
(* value store of repo.py.                                                 *)
(*                                                                         *)
(* Text is modelled as a sequence of one-character strings, so that the    *)
(* string operations of the code (strip, replace, re.findall, the          *)
(* character whitelist, eval of the substituted expression, the fixed      *)
(* point formatting) are computed as the code computes them.               *)
(* Python floats are modelled as exact rationals <<n, d>> with d > 0.      *)
(***************************************************************************)
EXTENDS Integers, Sequences, FiniteSets, TLC

(***************************************************************************)
(* Text helpers (Python str)                                               *)
(***************************************************************************)
Digits == {"0", "1", "2", "3", "4", "5", "6", "7", "8", "9"}

Letters == {"a", "b", "c", "d", "e", "f", "g", "h", "i", "j", "k", "l", "m",
            "n", "o", "p", "q", "r", "s", "t", "u", "v", "w", "x", "y", "z",
            "A", "B", "C", "D", "E", "F", "G", "H", "I", "J", "K", "L", "M",
            "N", "O", "P", "Q", "R", "S", "T", "U", "V", "W", "X", "Y", "Z"}

\* the regex classes \w and \s, over the characters the model uses
WordOrSpace == Letters \cup Digits \cup {"_", " "}

DigitVal(c) ==
    CASE c = "0" -> 0 [] c = "1" -> 1 [] c = "2" -> 2 [] c = "3" -> 3
      [] c = "4" -> 4 [] c = "5" -> 5 [] c = "6" -> 6 [] c = "7" -> 7
      [] c = "8" -> 8 [] c = "9" -> 9

DigitChar(n) ==
    CASE n = 0 -> "0" [] n = 1 -> "1" [] n = 2 -> "2" [] n = 3 -> "3"
      [] n = 4 -> "4" [] n = 5 -> "5" [] n = 6 -> "6" [] n = 7 -> "7"
      [] n = 8 -> "8" [] n = 9 -> "9"

RECURSIVE LStrip(_)
LStrip(s) == IF s # << >> /\ Head(s) = " " THEN LStrip(Tail(s)) ELSE s

RECURSIVE RStrip(_)
RStrip(s) ==
    IF s # << >> /\ s[Len(s)] = " " THEN RStrip(SubSeq(s, 1, Len(s) - 1)) ELSE s

\* str.strip()
Strip(s) == RStrip(LStrip(s))

\* s[i:] starts with the text pat
StartsAt(s, i, pat) ==
    /\ i + Len(pat) - 1 <= Len(s)
    /\ \A k \in 1..Len(pat) : s[i + k - 1] = pat[k]

\* str.replace(old, new): leftmost non-overlapping occurrences
RECURSIVE ReplaceFrom(_, _, _, _)
ReplaceFrom(s, i, old, new) ==
    IF i > Len(s) THEN << >>
    ELSE IF old # << >> /\ StartsAt(s, i, old)
         THEN new \o ReplaceFrom(s, i + Len(old), old, new)
         ELSE <<s[i]>> \o ReplaceFrom(s, i + 1, old, new)

Replace(s, old, new) == ReplaceFrom(s, 1, old, new)

\* raw.replace(",", ".") and s.replace(".", ",")
CommaToDot(s) == [i \in 1..Len(s) |-> IF s[i] = "," THEN "." ELSE s[i]]

DotToComma(s) == [i \in 1..Len(s) |-> IF s[i] = "." THEN "," ELSE s[i]]

(***************************************************************************)
(* Numbers: Python float as an exact rational <<n, d>>, d > 0; NoNum is    *)
(* None (no value / the operation raised).                                 *)
(***************************************************************************)
NoNum == << >>

Abs(n) == IF n < 0 THEN -n ELSE n

RECURSIVE Gcd(_, _)
Gcd(a, b) == IF b = 0 THEN a ELSE Gcd(b, a % b)

Rat(n, d) ==
    LET g == Gcd(Abs(n), Abs(d))
        s == IF d < 0 THEN -1 ELSE 1
    IN  IF n = 0 THEN <<0, 1>> ELSE <<s * (n \div g), s * (d \div g)>>

RAdd(a, b) == Rat(a[1] * b[2] + b[1] * a[2], a[2] * b[2])
RSub(a, b) == Rat(a[1] * b[2] - b[1] * a[2], a[2] * b[2])
RMul(a, b) == Rat(a[1] * b[1], a[2] * b[2])
RDiv(a, b) == Rat(a[1] * b[2], a[2] * b[1])
RNeg(a) == <<-a[1], a[2]>>
RLeq(a, b) == a[1] * b[2] <= b[1] * a[2]

RECURSIVE Pow10(_)
Pow10(p) == IF p <= 0 THEN 1 ELSE 10 * Pow10(p - 1)

\* value of a run of digits
RECURSIVE DigitsVal(_, _)
DigitsVal(s, acc) ==
    IF s = << >> THEN acc ELSE DigitsVal(Tail(s), 10 * acc + DigitVal(Head(s)))

\* length of the maximal run of digits of s starting at position i
RECURSIVE DigitRun(_, _)
DigitRun(s, i) ==
    IF i <= Len(s) /\ s[i] \in Digits THEN 1 + DigitRun(s, i + 1) ELSE 0

RECURSIVE NatToStr(_)
NatToStr(n) ==
    IF n < 10 THEN <<DigitChar(n)>> ELSE NatToStr(n \div 10) \o <<DigitChar(n % 10)>>

RECURSIVE ZeroPad(_, _)
ZeroPad(s, w) == IF Len(s) >= w THEN s ELSE ZeroPad(<<"0">> \o s, w)


(***************************************************************************)
(* float(text): optional sign, digits with an optional decimal point.      *)
(* The exponent, inf/nan and "_" forms need characters no text of the      *)
(* model contains.  Leading zeros are accepted ("07" is 7.0).              *)
(***************************************************************************)
ParseUnsigned(s) ==
    LET n1 == DigitRun(s, 1)
        hasDot == n1 < Len(s) /\ s[n1 + 1] = "."
        n2 == IF hasDot THEN DigitRun(s, n1 + 2) ELSE 0
        used == n1 + (IF hasDot THEN 1 + n2 ELSE 0)
    IN  IF used # Len(s) \/ n1 + n2 = 0 THEN NoNum
        ELSE Rat(DigitsVal(SubSeq(s, 1, n1), 0) * Pow10(n2)
                   + DigitsVal(SubSeq(s, n1 + 2, n1 + 1 + n2), 0),
                 Pow10(n2))

ParseFloat(s0) ==
    LET s == Strip(s0)
    IN  IF s = << >> THEN NoNum
        ELSE IF Head(s) = "-"
             THEN LET u == ParseUnsigned(Tail(s))
                  IN  IF u = NoNum THEN NoNum ELSE RNeg(u)
        ELSE IF Head(s) = "+" THEN ParseUnsigned(Tail(s))
        ELSE ParseUnsigned(s)

(***************************************************************************)
(* f"{round(val, p):.{p}f}": round half to even, p decimals, "." as the    *)
(* separator.  A float that is a negative zero keeps its sign.             *)
(***************************************************************************)
RoundScaled(q, p) ==
    LET a == Abs(q[1]) * Pow10(p)
        d == q[2]
        w == a \div d
        r == a % d
    IN  IF 2 * r > d THEN w + 1
        ELSE IF 2 * r < d THEN w
        ELSE IF w % 2 = 0 THEN w ELSE w + 1

FormatFixed(q, p) ==
    LET ds == ZeroPad(NatToStr(RoundScaled(q, p)), p + 1)
        ip == SubSeq(ds, 1, Len(ds) - p)
        fp == SubSeq(ds, Len(ds) - p + 1, Len(ds))
    IN  (IF q[1] < 0 THEN <<"-">> ELSE << >>)
          \o ip \o (IF p > 0 THEN <<".">> \o fp ELSE << >>)

\* str(val) of a float with a short terminating decimal expansion:
\* the shortest expansion, with at least one decimal ("5.0", "0.25")
RECURSIVE ReprDecimals(_, _)
ReprDecimals(q, k) ==
    IF k >= 6 \/ Pow10(k) % q[2] = 0 THEN k ELSE ReprDecimals(q, k + 1)

PyStr(q) == FormatFixed(q, ReprDecimals(q, 1))

(***************************************************************************)
(* eval(expression, {"__builtins__": {}}, allowed_names) on a text that    *)
(* passed the whitelist "0123456789.+-*/() ": the Python tokens and        *)
(* grammar such a text can contain.  Every exception (SyntaxError,         *)
(* ZeroDivisionError, TypeError of float(())) gives NoNum.  The operators  *)
(* "**" and "//" are not given a value (PowOrFloorDiv tells them apart).   *)
(***************************************************************************)
NumTok(q) == [k |-> "num", c |-> "0", v |-> q]
OpTok(ch) == [k |-> "op", c |-> ch, v |-> <<0, 1>>]
ErrTok == [k |-> "err", c |-> "?", v |-> <<0, 1>>]

RECURSIVE Tokens(_, _)
Tokens(s, i) ==
    IF i > Len(s) THEN << >>
    ELSE LET ch == s[i] IN
      IF ch = " " THEN Tokens(s, i + 1)
      ELSE IF ch \in Digits \/ ch = "."
      THEN LET n1 == DigitRun(s, i)
               hasDot == i + n1 <= Len(s) /\ s[i + n1] = "."
               n2 == IF hasDot THEN DigitRun(s, i + n1 + 1) ELSE 0
               ip == SubSeq(s, i, i + n1 - 1)
               fp == SubSeq(s, i + n1 + 1, i + n1 + n2)
               next == i + n1 + (IF hasDot THEN 1 + n2 ELSE 0)
           IN  IF hasDot
               THEN IF n1 + n2 = 0 THEN <<ErrTok>>
                    ELSE <<NumTok(Rat(DigitsVal(ip, 0) * Pow10(n2) + DigitsVal(fp, 0),
                                      Pow10(n2)))>> \o Tokens(s, next)
               \* decinteger: no leading zero unless the literal is all zeros
               ELSE IF n1 > 1 /\ ip[1] = "0" /\ DigitsVal(ip, 0) # 0 THEN <<ErrTok>>
                    ELSE <<NumTok(Rat(DigitsVal(ip, 0), 1))>> \o Tokens(s, next)
      ELSE IF ch \in {"+", "-", "*", "/", "(", ")"}
      THEN <<OpTok(ch)>> \o Tokens(s, i + 1)
      ELSE <<ErrTok>>

PowOrFloorDiv(s) ==
    \E i \in 1..(Len(s) - 1) : s[i] = s[i + 1] /\ s[i] \in {"*", "/"}

ParseFail == [ok |-> FALSE, v |-> <<0, 1>>, i |-> 0]

IsOp(t, i, ch) == i <= Len(t) /\ t[i].k = "op" /\ t[i].c = ch

RECURSIVE ParseExpr(_, _)
RECURSIVE ExprRest(_, _)
RECURSIVE ParseTerm(_, _)
RECURSIVE TermRest(_, _)
RECURSIVE ParseFactor(_, _)

ParseFactor(t, i) ==
    IF i > Len(t) THEN ParseFail
    ELSE IF t[i].k = "num" THEN [ok |-> TRUE, v |-> t[i].v, i |-> i + 1]
    ELSE IF IsOp(t, i, "-")
         THEN LET r == ParseFactor(t, i + 1)
              IN  IF r.ok THEN [r EXCEPT !.v = RNeg(r.v)] ELSE ParseFail
    ELSE IF IsOp(t, i, "+") THEN ParseFactor(t, i + 1)
    ELSE IF IsOp(t, i, "(")
         THEN LET r == ParseExpr(t, i + 1)
              IN  IF r.ok /\ IsOp(t, r.i, ")") THEN [r EXCEPT !.i = r.i + 1]
                  ELSE ParseFail
    ELSE ParseFail

TermRest(t, acc) ==
    IF ~acc.ok THEN ParseFail
    ELSE IF IsOp(t, acc.i, "*")
         THEN LET r == ParseFactor(t, acc.i + 1)
              IN  IF r.ok THEN TermRest(t, [r EXCEPT !.v = RMul(acc.v, r.v)])
                  ELSE ParseFail
    ELSE IF IsOp(t, acc.i, "/")
         THEN LET r == ParseFactor(t, acc.i + 1)
              IN  IF r.ok /\ r.v[1] # 0
                  THEN TermRest(t, [r EXCEPT !.v = RDiv(acc.v, r.v)])
                  ELSE ParseFail
    ELSE acc

ParseTerm(t, i) == TermRest(t, ParseFactor(t, i))

ExprRest(t, acc) ==
    IF ~acc.ok THEN ParseFail
    ELSE IF IsOp(t, acc.i, "+")
         THEN LET r == ParseTerm(t, acc.i + 1)
              IN  IF r.ok THEN ExprRest(t, [r EXCEPT !.v = RAdd(acc.v, r.v)])
                  ELSE ParseFail
    ELSE IF IsOp(t, acc.i, "-")
         THEN LET r == ParseTerm(t, acc.i + 1)
              IN  IF r.ok THEN ExprRest(t, [r EXCEPT !.v = RSub(acc.v, r.v)])
                  ELSE ParseFail
    ELSE acc

ParseExpr(t, i) == ExprRest(t, ParseTerm(t, i))

PyEval(s) ==
    LET t == Tokens(s, 1)
        r == ParseExpr(t, 1)
    IN  IF \E i \in 1..Len(t) : t[i].k = "err" THEN NoNum
        ELSE IF r.ok /\ r.i = Len(t) + 1 THEN r.v
        ELSE NoNum


(***************************************************************************)
(* Schema: the rows _load_structure reads (tabs, groups, fields,           *)
(* dictionary_values), as two study types.  Field types are written        *)
(* "string", "text", "number", "choice", "formula" for the values          *)
(* 'строка', 'текст', 'число', 'словарь', 'формула' of fields.field_type.  *)
(* A NULL precision is NoPrecision, a NULL trigger id is 0, a NULL text    *)
(* is the empty text (the code tests all of them by truthiness).           *)
(***************************************************************************)
VARIABLES study_type_id, patient_gender, protocols, builder, text, shown, bg,
          _loading, _protocol_id, currentIndex, expanded, last

vars == <<study_type_id, patient_gender, protocols, builder, text, shown, bg,
          _loading, _protocol_id, currentIndex, expanded, last>>

NoPrecision == -1

FieldMeta(id, group_id, tab_id, name, field_type) ==
    [id |-> id, group_id |-> group_id, tab_id |-> tab_id, name |-> name,
     field_type |-> field_type, precision |-> NoPrecision,
     ref_male_min |-> NoNum, ref_male_max |-> NoNum,
     ref_female_min |-> NoNum, ref_female_max |-> NoNum,
     formula |-> << >>, required |-> FALSE, is_hidden |-> FALSE,
     trigger_field_id |-> 0, trigger_value |-> << >>]

s_none == <<"n", "o", "n", "e">>
s_A == <<"A">>
s_B == <<"B">>
s_x == <<"x">>
s_5 == <<"5">>
s_blank == <<" ">>
s_2_5 == <<"2", ",", "5">>
s_70_5 == <<"7", "0", ",", "5">>
s_1_80 == <<"1", ",", "8", "0">>
s_07 == <<"0", "7">>

\* Study type 1: a choice field Sel, a field Hid hidden by default and
\* wired to Sel (with a stored trigger value "B"), a number field Num with
\* a male reference range [3, 5]; a second, empty tab.
TriggerStudy ==
    [tabs |-> << [id |-> 1, name |-> <<"T">>], [id |-> 2, name |-> <<"U">>] >>,
     groups |-> << [id |-> 1, tab_id |-> 1, name |-> <<"G">>,
                    is_expanded_by_default |-> FALSE] >>,
     fields |-> <<
        FieldMeta(1, 1, 1, <<"S", "e", "l">>, "choice"),
        [FieldMeta(2, 1, 1, <<"H", "i", "d">>, "string") EXCEPT
            !.is_hidden = TRUE, !.trigger_field_id = 1, !.trigger_value = s_B],
        [FieldMeta(3, 1, 1, <<"N", "u", "m">>, "number") EXCEPT
            !.precision = 1, !.ref_male_min = <<3, 1>>, !.ref_male_max = <<5, 1>>] >>,
     dictionary_values |-> (1 :> <<s_none, s_A, s_B>>),
     inputs |-> (1 :> {<< >>, s_none, s_A}) @@ (2 :> {<< >>, s_x})
                @@ (3 :> {<< >>, s_5})]

f_bmi == <<"T", ".", "G", ".", "W", " ", "/", " ", "(", "T", ".", "G", ".", "X", " ", "*", " ", "T", ".", "G", ".", "X", ")">>
f_sum == <<"T", ".", "G", ".", "W", " ", "+", " ", "T", ".", "G", ".", "W", "a">>
f_sqrt == <<"s", "q", "r", "t", "(", "T", ".", "G", ".", "X", ")">>
f_unknown == <<"T", ".", "G", ".", "Q", " ", "+", " ", "1">>

\* Study type 2: a string W, a number X (precision 2), and formula fields
\* over them: W / (X * X), sqrt(X), and a reference to a field Q that the
\* structure does not have.
FormulaStudy ==
    [tabs |-> << [id |-> 1, name |-> <<"T">>], [id |-> 2, name |-> <<"U">>] >>,
     groups |-> << [id |-> 1, tab_id |-> 1, name |-> <<"G">>,
                    is_expanded_by_default |-> FALSE] >>,
     fields |-> <<
        FieldMeta(1, 1, 1, <<"W">>, "string"),
        [FieldMeta(2, 1, 1, <<"X">>, "number") EXCEPT !.precision = 2],
        [FieldMeta(3, 1, 1, <<"B", "m", "i">>, "formula") EXCEPT
            !.precision = 2, !.formula = f_bmi],
        [FieldMeta(4, 1, 1, <<"R", "t">>, "formula") EXCEPT
            !.precision = 2, !.formula = f_sqrt],
        [FieldMeta(5, 1, 1, <<"U", "n">>, "formula") EXCEPT
            !.precision = 1, !.formula = f_unknown] >>,
     dictionary_values |-> << >>,
     inputs |-> (1 :> {<< >>, s_blank, s_70_5}) @@ (2 :> {<< >>, s_1_80, s_07})]

\* Study type 3: a number W (precision 1), a string Wa whose path starts
\* with the path of W, and the formula W + Wa.
SumStudy ==
    [tabs |-> << [id |-> 1, name |-> <<"T">>], [id |-> 2, name |-> <<"U">>] >>,
     groups |-> << [id |-> 1, tab_id |-> 1, name |-> <<"G">>,
                    is_expanded_by_default |-> FALSE] >>,
     fields |-> <<
        [FieldMeta(1, 1, 1, <<"W">>, "number") EXCEPT !.precision = 1],
        FieldMeta(2, 1, 1, <<"W", "a">>, "string"),
        [FieldMeta(3, 1, 1, <<"S", "u", "m">>, "formula") EXCEPT
            !.precision = 1, !.formula = f_sum] >>,
     dictionary_values |-> << >>,
     inputs |-> (1 :> {<< >>, s_70_5}) @@ (2 :> {<< >>, s_2_5})]

s_0 == <<"0">>
s_6 == <<"6">>
s_10 == <<"1", "0">>
f_inv == <<"1", "0", " ", "/", " ", "(", "A", ".", "G", "A", ".", "N", " ", "-", " ", "5", ")">>
f_per == <<"1", "0", " ", "/", " ", "T", ".", "G", ".", "S">>

\* Study type 4: on tab A a number field N (precision 1, male range [3, 5],
\* female range [6, 7]); on tab B a formula field Q = 10 / (A.GA.N - 5)
\* (precision 1, male range [2, 3], no female range).
RangeStudy ==
    [tabs |-> << [id |-> 1, name |-> <<"A">>], [id |-> 2, name |-> <<"B">>] >>,
     groups |-> << [id |-> 1, tab_id |-> 1, name |-> <<"G", "A">>,
                    is_expanded_by_default |-> FALSE],
                   [id |-> 2, tab_id |-> 2, name |-> <<"G", "B">>,
                    is_expanded_by_default |-> FALSE] >>,
     fields |-> <<
        [FieldMeta(1, 1, 1, <<"N">>, "number") EXCEPT
            !.precision = 1,
            !.ref_male_min = <<3, 1>>, !.ref_male_max = <<5, 1>>,
            !.ref_female_min = <<6, 1>>, !.ref_female_max = <<7, 1>>],
        [FieldMeta(2, 2, 2, <<"Q">>, "formula") EXCEPT
            !.precision = 1, !.formula = f_inv,
            !.ref_male_min = <<2, 1>>, !.ref_male_max = <<3, 1>>] >>,
     dictionary_values |-> << >>,
     inputs |-> (1 :> {<< >>, s_5, s_6})]

\* Study type 5: a string field S, a number field Z (precision 0), a formula
\* field Q = 10 / T.G.S (precision 1, male range [2, 3]); a second, empty
\* tab.
FailStudy ==
    [tabs |-> << [id |-> 1, name |-> <<"T">>], [id |-> 2, name |-> <<"U">>] >>,
     groups |-> << [id |-> 1, tab_id |-> 1, name |-> <<"G">>,
                    is_expanded_by_default |-> FALSE] >>,
     fields |-> <<
        FieldMeta(1, 1, 1, <<"S">>, "string"),
        [FieldMeta(2, 1, 1, <<"Z">>, "number") EXCEPT !.precision = 0],
        [FieldMeta(3, 1, 1, <<"Q">>, "formula") EXCEPT
            !.precision = 1, !.formula = f_per,
            !.ref_male_min = <<2, 1>>, !.ref_male_max = <<3, 1>>] >>,
     dictionary_values |-> << >>,
     inputs |-> (1 :> {s_x, s_0, s_10}) @@ (2 :> {s_5})]

\* Study type 6: a number field X (precision 1) that is also the trigger
\* of the hidden field H (trigger value "1,0"), and the formula fields
\* A = T.G.B + 1, B = T.G.C + 1, C = T.G.X + 1, R = T.G.R + 1 (precision 0),
\* in this order; a second, empty tab.
ChainStudy ==
    [tabs |-> << [id |-> 1, name |-> <<"T">>], [id |-> 2, name |-> <<"U">>] >>,
     groups |-> << [id |-> 1, tab_id |-> 1, name |-> <<"G">>,
                    is_expanded_by_default |-> FALSE] >>,
     fields |-> <<
        [FieldMeta(1, 1, 1, <<"X">>, "number") EXCEPT !.precision = 1],
        [FieldMeta(2, 1, 1, <<"H">>, "string") EXCEPT
            !.is_hidden = TRUE, !.trigger_field_id = 1,
            !.trigger_value = <<"1", ",", "0">>],
        [FieldMeta(3, 1, 1, <<"A">>, "formula") EXCEPT
            !.precision = 0,
            !.formula = <<"T", ".", "G", ".", "B", " ", "+", " ", "1">>],
        [FieldMeta(4, 1, 1, <<"B">>, "formula") EXCEPT
            !.precision = 0,
            !.formula = <<"T", ".", "G", ".", "C", " ", "+", " ", "1">>],
        [FieldMeta(5, 1, 1, <<"C">>, "formula") EXCEPT
            !.precision = 0,
            !.formula = <<"T", ".", "G", ".", "X", " ", "+", " ", "1">>],
        [FieldMeta(6, 1, 1, <<"R">>, "formula") EXCEPT
            !.precision = 0,
            !.formula = <<"T", ".", "G", ".", "R", " ", "+", " ", "1">>] >>,
     dictionary_values |-> << >>,
     inputs |-> (1 :> {<< >>, <<"1">>})]

\* Study type 7: a choice field Sel and a required number field Hid
\* (precision 0) hidden by default and wired to Sel; a second, empty tab.
RequiredStudy ==
    [tabs |-> << [id |-> 1, name |-> <<"T">>], [id |-> 2, name |-> <<"U">>] >>,
     groups |-> << [id |-> 1, tab_id |-> 1, name |-> <<"G">>,
                    is_expanded_by_default |-> FALSE] >>,
     fields |-> <<
        FieldMeta(1, 1, 1, <<"S", "e", "l">>, "choice"),
        [FieldMeta(2, 1, 1, <<"H", "i", "d">>, "number") EXCEPT
            !.is_hidden = TRUE, !.trigger_field_id = 1, !.required = TRUE,
            !.precision = 0] >>,
     dictionary_values |-> (1 :> <<s_none, s_A>>),
     inputs |-> (1 :> {s_none, s_A}) @@ (2 :> {<< >>, s_5})]

\* Study type 8: a study type for which no tab was created.
EmptyStudy ==
    [tabs |-> << >>, groups |-> << >>, fields |-> << >>,
     dictionary_values |-> << >>, inputs |-> << >>]

\* Study type 9: triggers in a chain. A choice field Sel; a choice field Mid
\* hidden by default and wired to Sel; a number field End (precision 0) hidden
\* by default and wired to Mid; a second, empty tab.
LinkStudy ==
    [tabs |-> << [id |-> 1, name |-> <<"T">>], [id |-> 2, name |-> <<"U">>] >>,
     groups |-> << [id |-> 1, tab_id |-> 1, name |-> <<"G">>,
                    is_expanded_by_default |-> FALSE] >>,
     fields |-> <<
        FieldMeta(1, 1, 1, <<"S", "e", "l">>, "choice"),
        [FieldMeta(2, 1, 1, <<"M", "i", "d">>, "choice") EXCEPT
            !.is_hidden = TRUE, !.trigger_field_id = 1],
        [FieldMeta(3, 1, 1, <<"E", "n", "d">>, "number") EXCEPT
            !.precision = 0, !.is_hidden = TRUE, !.trigger_field_id = 2] >>,
     dictionary_values |-> (1 :> <<s_none, s_A>>) @@ (2 :> <<s_none, s_A>>),
     inputs |-> (1 :> {s_none, s_A}) @@ (2 :> {s_A}) @@ (3 :> {s_5})]

\* Study type 10: a long-text field Txt and a formula field F = T.G.Txt + 1
\* (precision 0) on one tab.
TextStudy ==
    [tabs |-> << [id |-> 1, name |-> <<"T">>] >>,
     groups |-> << [id |-> 1, tab_id |-> 1, name |-> <<"G">>,
                    is_expanded_by_default |-> TRUE] >>,
     fields |-> <<
        FieldMeta(1, 1, 1, <<"T", "x", "t">>, "text"),
        [FieldMeta(2, 1, 1, <<"F">>, "formula") EXCEPT
            !.precision = 0,
            !.formula = <<"T", ".", "G", ".", "T", "x", "t", " ", "+", " ", "1">>] >>,
     dictionary_values |-> << >>,
     inputs |-> (1 :> {s_5})]

Structure ==
    IF study_type_id = 1 THEN TriggerStudy
    ELSE IF study_type_id = 2 THEN FormulaStudy
    ELSE IF study_type_id = 3 THEN SumStudy
    ELSE IF study_type_id = 4 THEN RangeStudy
    ELSE IF study_type_id = 5 THEN FailStudy
    ELSE IF study_type_id = 6 THEN ChainStudy
    ELSE IF study_type_id = 7 THEN RequiredStudy
    ELSE IF study_type_id = 8 THEN EmptyStudy
    ELSE IF study_type_id = 9 THEN LinkStudy ELSE TextStudy

\* self.fields / self.field_meta, in insertion order
FieldOrder == [i \in 1..Len(Structure.fields) |-> Structure.fields[i].id]

FieldIds == {Structure.fields[i].id : i \in 1..Len(Structure.fields)}

field_meta(fid) ==
    Structure.fields[CHOOSE i \in 1..Len(Structure.fields) : Structure.fields[i].id = fid]

GroupIds == {Structure.groups[i].id : i \in 1..Len(Structure.groups)}

TabCount == Len(Structure.tabs)

_tab_name_by_id(study, tid) ==
    study.tabs[CHOOSE i \in 1..Len(study.tabs) : study.tabs[i].id = tid].name

_group_name_by_id(study, gid) ==
    study.groups[CHOOSE i \in 1..Len(study.groups) : study.groups[i].id = gid].name

\* the items of a combo box: dictionary_values of the field, in display order
Items(fid) ==
    IF fid \in DOMAIN Structure.dictionary_values
    THEN Structure.dictionary_values[fid] ELSE << >>


(***************************************************************************)
(* The form while a handler runs: b = [text, shown, bg, loading].          *)
(*   text[f]   the text of the field's widget (FieldBinding.get_str)       *)
(*   shown[f]  the container has not been hidden by setVisible(False)      *)
(*   bg[f]     the widget carries the out-of-range background              *)
(*   loading   self._loading                                               *)
(***************************************************************************)
get_str(b, fid) == b.text[fid]

\* the keys of self.hidden_by_trigger: the triggers hidden fields are wired to
hidden_by_trigger == {field_meta(h).trigger_field_id :
                        h \in {g \in FieldIds : field_meta(g).is_hidden
                                                /\ field_meta(g).trigger_field_id # 0}}

\* the widget of the field is a QComboBox
IsComboBox(fid) == field_meta(fid).field_type \in {"choice"}

\* _first_choice_text: None is modelled by HasFirstChoice being false
HasFirstChoice(fid) == IsComboBox(fid) /\ Len(Items(fid)) > 0

_first_choice_text(fid) == Strip(Items(fid)[1])

\* a variant that decides by the trigger value stored on the hidden field
ShowFor_stored_value(b, trigger_field_id, hid) ==
    field_meta(hid).trigger_value # << >>
    /\ Strip(get_str(b, trigger_field_id)) = Strip(field_meta(hid).trigger_value)

\* the value of show for one hidden field (no combo box of the form has
\* the template_multi property, so that branch is never taken)
ShowFor(b, trigger_field_id, hid) ==
    LET trigger_val == Strip(get_str(b, trigger_field_id))
    IN  IF HasFirstChoice(trigger_field_id)
        THEN IF trigger_val = << >> THEN FALSE
             ELSE trigger_val # _first_choice_text(trigger_field_id)
        ELSE field_meta(hid).trigger_value # << >>
             /\ trigger_val = Strip(field_meta(hid).trigger_value)

\* a variant that also empties the fields it hides
_update_hidden_clearing(b, trigger_field_id) ==
    IF trigger_field_id \notin hidden_by_trigger THEN b
    ELSE [b EXCEPT
            !.shown = [h \in FieldIds |->
                IF field_meta(h).is_hidden
                   /\ field_meta(h).trigger_field_id = trigger_field_id
                THEN ShowFor(b, trigger_field_id, h)
                ELSE b.shown[h]],
            !.text = [h \in FieldIds |->
                IF field_meta(h).is_hidden
                   /\ field_meta(h).trigger_field_id = trigger_field_id
                   /\ ~ShowFor(b, trigger_field_id, h)
                THEN << >>
                ELSE b.text[h]]]

\* a variant that also hides the fields wired to a field it hides
_update_hidden_cascading(b, trigger_field_id) ==
    IF trigger_field_id \notin hidden_by_trigger THEN b
    ELSE [b EXCEPT !.shown =
            [h \in FieldIds |->
                LET t == field_meta(h).trigger_field_id
                IN  IF field_meta(h).is_hidden /\ t = trigger_field_id
                    THEN ShowFor(b, trigger_field_id, h)
                    ELSE IF /\ field_meta(h).is_hidden
                            /\ t \in FieldIds
                            /\ field_meta(t).is_hidden
                            /\ field_meta(t).trigger_field_id = trigger_field_id
                            /\ ~ShowFor(b, trigger_field_id, t)
                         THEN FALSE
                         ELSE b.shown[h]]]

_update_hidden(b, trigger_field_id) ==
    IF trigger_field_id \notin hidden_by_trigger THEN b
    ELSE [b EXCEPT !.shown =
            [h \in FieldIds |->
                IF field_meta(h).is_hidden
                   /\ field_meta(h).trigger_field_id = trigger_field_id
                THEN ShowFor(b, trigger_field_id, h)
                ELSE b.shown[h]]]

\* a variant that takes the male pair for every patient
_current_ref_range_male(meta) == <<meta.ref_male_min, meta.ref_male_max>>

_current_ref_range(meta) ==
    IF patient_gender = "f"
    THEN <<meta.ref_female_min, meta.ref_female_max>>
    ELSE <<meta.ref_male_min, meta.ref_male_max>>

(***************************************************************************)
(* _evaluate_formula                                                       *)
(***************************************************************************)
RECURSIVE ClassRun(_, _)
ClassRun(s, i) ==
    IF i <= Len(s) /\ s[i] \in WordOrSpace THEN 1 + ClassRun(s, i + 1) ELSE 0

\* re.findall(r"([\w\s]+)\.([\w\s]+)\.([\w\s]+)", formula)
RECURSIVE FindRefs(_, _)
FindRefs(s, i) ==
    IF i > Len(s) THEN << >>
    ELSE LET r1 == ClassRun(s, i)
             j == i + r1
             r2 == IF j <= Len(s) /\ s[j] = "." THEN ClassRun(s, j + 1) ELSE 0
             k == j + 1 + r2
             r3 == IF r2 > 0 /\ k <= Len(s) /\ s[k] = "." THEN ClassRun(s, k + 1) ELSE 0
         IN  IF r1 > 0 /\ r2 > 0 /\ r3 > 0
             THEN << <<SubSeq(s, i, j - 1), SubSeq(s, j + 1, k - 1),
                       SubSeq(s, k + 1, k + r3)>> >> \o FindRefs(s, k + 1 + r3)
             ELSE FindRefs(s, i + 1)

RefKey(ref) == Strip(ref[1]) \o <<".">> \o Strip(ref[2]) \o <<".">> \o Strip(ref[3])

\* key = f"{tab}.{group}.{field}" of a field of a study
PathOf(study, i) ==
    Strip(_tab_name_by_id(study, study.fields[i].tab_id)) \o <<".">>
      \o Strip(_group_name_by_id(study, study.fields[i].group_id)) \o <<".">>
      \o Strip(study.fields[i].name)

\* self._field_id_by_path as _load_structure fills it: the keys in field
\* order, each with its field id
PathsOf(study) ==
    [i \in 1..Len(study.fields) |->
        [key |-> PathOf(study, i), id |-> study.fields[i].id]]

TriggerPaths == PathsOf(TriggerStudy)

FormulaPaths == PathsOf(FormulaStudy)

SumPaths == PathsOf(SumStudy)

RangePaths == PathsOf(RangeStudy)

FailPaths == PathsOf(FailStudy)

ChainPaths == PathsOf(ChainStudy)

RequiredPaths == PathsOf(RequiredStudy)

Paths ==
    IF study_type_id = 1 THEN TriggerPaths
    ELSE IF study_type_id = 2 THEN FormulaPaths
    ELSE IF study_type_id = 3 THEN SumPaths
    ELSE IF study_type_id = 4 THEN RangePaths
    ELSE IF study_type_id = 5 THEN FailPaths
    ELSE IF study_type_id = 6 THEN ChainPaths
    ELSE IF study_type_id = 7 THEN RequiredPaths ELSE PathsOf(Structure)

\* self._field_id_by_path.get(key): a later field overwrites an earlier one;
\* 0 is None
_field_id_by_path(key) ==
    IF \A i \in 1..Len(Paths) : Paths[i].key # key THEN 0
    ELSE Paths[CHOOSE i \in 1..Len(Paths) :
                  Paths[i].key = key
                  /\ \A j \in (i + 1)..Len(Paths) : Paths[j].key # key].id

\* the fallback: the first field of field_meta with that bare name; 0 if none
FieldByName(field_name) ==
    IF \A i \in 1..Len(Structure.fields) :
          Strip(Structure.fields[i].name) # Strip(field_name)
    THEN 0
    ELSE Structure.fields[CHOOSE i \in 1..Len(Structure.fields) :
            Strip(Structure.fields[i].name) = Strip(field_name)
            /\ \A j \in 1..(i - 1) :
                  Strip(Structure.fields[j].name) # Strip(field_name)].id

\* "if not fid: ..." : the path hit, or else the bare-name fallback
PathOrName(fid, ref) == IF fid # 0 THEN fid ELSE FieldByName(ref[3])

\* the field a reference resolves to; 0 if none
ResolveRef(ref) == PathOrName(_field_id_by_path(RefKey(ref)), ref)

IsBlank(raw) == raw = << >> \/ Strip(raw) = << >>

\* "if not fid: return None" and "if raw is None or raw.strip() == ''"
RefBlank(b, fid) == fid = 0 \/ IsBlank(get_str(b, fid))

\* the loop over field_refs returns None
RefsFail(b, refs) == \E i \in 1..Len(refs) : RefBlank(b, ResolveRef(refs[i]))

\* expression.replace(ref, v) for every item of values, in insertion order
\* (a key seen again keeps its place in the dict)
RECURSIVE Substitute(_, _, _, _)
Substitute(b, expression, refs, i) ==
    IF i > Len(refs) THEN expression
    ELSE IF \E j \in 1..(i - 1) : RefKey(refs[j]) = RefKey(refs[i])
         THEN Substitute(b, expression, refs, i + 1)
         ELSE Substitute(b,
                Replace(expression, RefKey(refs[i]),
                        CommaToDot(get_str(b, ResolveRef(refs[i])))),
                refs, i + 1)

allowed_chars == Digits \cup {".", "+", "-", "*", "/", "(", ")", " "}

\* The re.sub of line 1014 matches only text that contains a backslash, and
\* a text with a backslash fails the whitelist before and after it; no text
\* of the model contains one, so the expression passes through unchanged.
\* the character whitelist and eval of the substituted expression
EvalExpression(expression) ==
    IF \E i \in 1..Len(expression) : expression[i] \notin allowed_chars
    THEN NoNum
    ELSE PyEval(expression)

\* the loop over field_refs, then the substitution
EvalRefs(b, formula, field_refs) ==
    IF RefsFail(b, field_refs) THEN NoNum
    ELSE EvalExpression(CommaToDot(Substitute(b, formula, field_refs, 1)))

_evaluate_formula(b, formula) == EvalRefs(b, formula, FindRefs(formula, 1))


(***************************************************************************)
(* Signals and slots.  set_str changes the widget text; a changed text     *)
(* emits textChanged / currentTextChanged, and Qt runs the connected       *)
(* slots in the order _load_structure connected them: the trigger update,  *)
(* the formula recalculation, the reference check.  (QPlainTextEdit emits  *)
(* textChanged on every setPlainText.)                                     *)
(***************************************************************************)
\* A form b also counts what ran since the event began: calls (the slots
\* invoked), passes (the times _recalculate_formulas went past its _loading
\* test) and checks (the times _check_reference did).  An event that has
\* invoked MaxCalls slots is cut off.
MaxCalls == 16

RECURSIVE ValueChanged(_, _)

\* FieldBinding.set_str / QLineEdit.setText: a changed text runs the slots
\* of the field
set_str(b, fid, value) ==
    IF field_meta(fid).field_type # "text" /\ b.text[fid] = value THEN b
    ELSE ValueChanged([b EXCEPT !.text[fid] = value], fid)

\* round(val, precision) as a number
RoundTo(q, p) == Rat((IF q[1] < 0 THEN -1 ELSE 1) * RoundScaled(q, p), Pow10(p))

\* the highlight: set outside [ref_min, ref_max] when both are given
RangeFlag(b, field_id, val, rng) ==
    IF rng[1] # NoNum /\ rng[2] # NoNum
    THEN [b EXCEPT !.bg[field_id] = ~(RLeq(rng[1], val) /\ RLeq(val, rng[2]))]
    ELSE b

\* a variant that rewrites the text with _loading unset
Rewritten_not_loading(b, field_id, meta, val) ==
    IF meta.precision # NoPrecision
    THEN set_str(b, field_id, DotToComma(FormatFixed(val, meta.precision)))
    ELSE b

\* the field text rewritten with the field's precision, under _loading
Rewritten(b, field_id, meta, val) ==
    IF meta.precision # NoPrecision
    THEN [set_str([b EXCEPT !.loading = TRUE], field_id,
                  DotToComma(FormatFixed(val, meta.precision)))
            EXCEPT !.loading = FALSE]
    ELSE b

\* _check_reference once float() has given a value (None: nothing is done)
CheckParsed(b, field_id, meta, parsed) ==
    IF parsed = NoNum THEN b
    ELSE IF meta.precision # NoPrecision
         THEN RangeFlag(Rewritten(b, field_id, meta, RoundTo(parsed, meta.precision)),
                        field_id, RoundTo(parsed, meta.precision),
                        _current_ref_range(meta))
         ELSE RangeFlag(b, field_id, parsed, _current_ref_range(meta))

_check_reference(b, field_id) ==
    IF b.loading THEN b
    ELSE IF field_meta(field_id).field_type \notin {"number", "formula"}
         THEN [b EXCEPT !.checks = @ + 1]
    ELSE IF Strip(get_str(b, field_id)) = << >>
         THEN [b EXCEPT !.bg[field_id] = FALSE, !.checks = @ + 1]
    ELSE CheckParsed([b EXCEPT !.checks = @ + 1], field_id, field_meta(field_id),
                     ParseFloat(CommaToDot(Strip(get_str(b, field_id)))))

\* the text written for a result: "" for None, else the result rounded
\* to the precision of the field (str(result) without one), decimal comma
ResultText(meta, result) ==
    IF result = NoNum THEN << >>
    ELSE DotToComma(IF meta.precision # NoPrecision
                    THEN FormatFixed(result, meta.precision)
                    ELSE PyStr(result))

\* a variant that leaves the field as it is when there is no result
WriteResult_skip_none(b, fid, meta, result) ==
    IF result = NoNum THEN b
    ELSE _check_reference(
            [set_str([b EXCEPT !.loading = TRUE], fid, ResultText(meta, result))
               EXCEPT !.loading = FALSE], fid)

\* a variant that empties the field for None and leaves its highlight
WriteResult_keep_bg(b, fid, meta, result) ==
    IF result = NoNum
    THEN [set_str([b EXCEPT !.loading = TRUE], fid, << >>)
            EXCEPT !.loading = FALSE]
    ELSE _check_reference(
            [set_str([b EXCEPT !.loading = TRUE], fid, ResultText(meta, result))
               EXCEPT !.loading = FALSE], fid)

\* the tail of the loop body of _recalculate_formulas: the result is
\* written to the formula field (None clears it and its highlight)
WriteResult(b, fid, meta, result) ==
    IF result = NoNum
    THEN [set_str([b EXCEPT !.loading = TRUE], fid, << >>)
            EXCEPT !.bg[fid] = FALSE, !.loading = FALSE]
    ELSE _check_reference(
            [set_str([b EXCEPT !.loading = TRUE], fid, ResultText(meta, result))
               EXCEPT !.loading = FALSE], fid)

\* one pass of the loop body of _recalculate_formulas
RecalculateField(b, fid) ==
    IF field_meta(fid).field_type # "formula" \/ field_meta(fid).formula = << >>
    THEN b
    ELSE WriteResult(b, fid, field_meta(fid),
                     _evaluate_formula(b, field_meta(fid).formula))

RECURSIVE RecalculateFrom(_, _)
RecalculateFrom(b, i) ==
    IF i > Len(FieldOrder) THEN b
    ELSE RecalculateFrom(RecalculateField(b, FieldOrder[i]), i + 1)

\* a variant without the _loading test
_recalculate_formulas_always(b) ==
    RecalculateFrom([b EXCEPT !.passes = @ + 1], 1)

_recalculate_formulas(b) ==
    IF b.loading THEN b ELSE RecalculateFrom([b EXCEPT !.passes = @ + 1], 1)

\* the slot connected to the triggers (522-524)
SlotHidden(b, fid) ==
    IF fid \in hidden_by_trigger
    THEN _update_hidden([b EXCEPT !.calls = @ + 1], fid) ELSE b

\* the slot connected to the number, string and choice fields (527-529)
SlotRecalculate(b, fid) ==
    IF field_meta(fid).field_type \in {"number", "string", "choice"}
    THEN _recalculate_formulas([b EXCEPT !.calls = @ + 1]) ELSE b

\* the slot connected to the number and formula fields (532-534)
SlotCheck(b, fid) ==
    IF field_meta(fid).field_type \in {"number", "formula"}
    THEN _check_reference([b EXCEPT !.calls = @ + 1], fid) ELSE b

\* textChanged / currentTextChanged of a field: its slots, in the order
\* they were connected
ValueChanged(b, fid) ==
    IF b.calls >= MaxCalls THEN b
    ELSE SlotCheck(SlotRecalculate(SlotHidden(b, fid), fid), fid)

\* the text _normalize_number writes; its setText is made with _loading
\* unset, so a changed text runs the slots
NormalizeTo(b, fid, s) ==
    IF s = b.text[fid] THEN b ELSE ValueChanged([b EXCEPT !.text[fid] = s], fid)

NormalizeVal(b, fid, meta, val) ==
    IF val = NoNum THEN b
    ELSE NormalizeTo(b, fid,
            DotToComma(IF meta.precision # NoPrecision
                       THEN FormatFixed(val, meta.precision) ELSE PyStr(val)))

\* _normalize_number, connected to editingFinished of a number field
_normalize_number(b, fid) ==
    IF b.loading \/ Strip(get_str(b, fid)) = << >> THEN b
    ELSE NormalizeVal(b, fid, field_meta(fid),
                      ParseFloat(CommaToDot(Strip(get_str(b, fid)))))

(***************************************************************************)
(* The form at rest, and Qt's QWidget.isVisible(): a widget is visible if  *)
(* it was not hidden itself and every ancestor is visible.  The ancestors  *)
(* of a field container that change are the content widget of its group    *)
(* (CollapsibleGroupBox._on_toggled) and the page of its tab (QTabWidget   *)
(* shows the current page only).                                           *)
(***************************************************************************)
Form ==
    [text |-> text, shown |-> shown, bg |-> bg, loading |-> _loading,
     calls |-> 0, passes |-> 0, checks |-> 0]

TabIdAt(index) == Structure.tabs[index].id

isVisible(fid) ==
    /\ shown[fid]
    /\ expanded[field_meta(fid).group_id]
    /\ currentIndex \in 1..TabCount
    /\ TabIdAt(currentIndex) = field_meta(fid).tab_id

\* a variant that skips no field
collect_values_of_all == [fid \in FieldIds |-> text[fid]]

\* collect_values: a dict, here a function on the ids that are kept
collect_values ==
    [fid \in {f \in FieldIds : ~(field_meta(f).is_hidden /\ ~isVisible(f))}
        |-> text[fid]]

(***************************************************************************)
(* repo.py: the tables protocols and protocol_values.  protocols[pid] is   *)
(* the row with id pid; finished is "finished_at IS NOT NULL"; values is   *)
(* the set of protocol_values rows of the protocol, as field id -> value.  *)
(***************************************************************************)
MaxProtocols == 1

\* latest unfinished protocol of the patient and study type; 0 is None
get_protocol_draft_id(table) ==
    LET open == {i \in 1..Len(table) : ~table[i].finished}
    IN  IF open = {} THEN 0 ELSE CHOOSE i \in open : \A j \in open : j <= i

load_protocol_values(protocol_id) == protocols[protocol_id].values

\* the rows after the INSERT OR REPLACE loop of save_protocol
StoredAfter(old, values) ==
    LET kept == {f \in DOMAIN values : Strip(values[f]) # << >>}
    IN  [f \in (DOMAIN old) \cup kept |-> IF f \in kept THEN values[f] ELSE old[f]]

\* the table after save_protocol; the id it returns is SavedId
save_protocol(protocol_id, values, finalize) ==
    IF protocol_id # 0
    THEN [protocols EXCEPT
            ![protocol_id] = [finished |-> (finalize \/ @.finished),
                              values |-> StoredAfter(@.values, values)]]
    ELSE Append(protocols, [finished |-> finalize,
                            values |-> StoredAfter(<< >>, values)])

SavedId(protocol_id) == IF protocol_id # 0 THEN protocol_id ELSE Len(protocols) + 1

\* a variant that closes no draft
finalize_open_protocols_none == protocols

finalize_open_protocols ==
    [i \in 1..Len(protocols) |-> [protocols[i] EXCEPT !.finished = TRUE]]

(***************************************************************************)
(* ProtocolBuilderQt.build                                                 *)
(***************************************************************************)
\* the form _load_structure leaves: empty widgets, the hidden fields that
\* have a trigger hidden, no background
LoadedStructure ==
    [text |-> [f \in FieldIds |-> << >>],
     shown |-> [f \in FieldIds |->
                  ~(field_meta(f).is_hidden /\ field_meta(f).trigger_field_id # 0)],
     bg |-> [f \in FieldIds |-> FALSE],
     loading |-> FALSE, calls |-> 0, passes |-> 0, checks |-> 0]

GroupsOfTab(tab_id) ==
    {i \in 1..Len(Structure.groups) : Structure.groups[i].tab_id = tab_id}

InitialExpanded ==
    [g \in GroupIds |->
        LET row == Structure.groups[CHOOSE i \in 1..Len(Structure.groups) :
                                        Structure.groups[i].id = g]
        IN  Cardinality(GroupsOfTab(row.tab_id)) = 1 \/ row.is_expanded_by_default]

\* the loop "for fid, v in values.items()" of _load_existing_protocol; each
\* set_str runs under _loading, so the order of the rows does not matter
RECURSIVE ApplyValues(_, _, _)
ApplyValues(b, values, i) ==
    IF i > Len(FieldOrder) THEN b
    ELSE LET fid == FieldOrder[i]
         IN  IF fid \in DOMAIN values /\ values[fid] # << >>
             THEN ApplyValues(set_str(b, fid, values[fid]), values, i + 1)
             ELSE ApplyValues(b, values, i + 1)

\* "for trigger_id in list(self.hidden_by_trigger.keys())": _update_hidden of
\* every trigger that is a field (restricted to the tabs in tab_ids)
RECURSIVE SyncHidden(_, _, _)
SyncHidden(b, tab_ids, i) ==
    IF i > Len(FieldOrder) THEN b
    ELSE LET h == FieldOrder[i]
             t == field_meta(h).trigger_field_id
         IN  IF field_meta(h).is_hidden /\ t # 0 /\ t \in FieldIds
                /\ field_meta(t).tab_id \in tab_ids
             THEN SyncHidden(_update_hidden(b, t), tab_ids, i + 1)
             ELSE SyncHidden(b, tab_ids, i + 1)

AllTabIds == {Structure.tabs[i].id : i \in 1..Len(Structure.tabs)}

\* the protocol id _load_existing_protocol settles on
LoadedProtocolId(forced, table) ==
    IF forced # 0 THEN forced ELSE get_protocol_draft_id(table)

\* a variant that does not unset _loading after the loop
_load_existing_protocol_keep_loading(b, protocol_id, table) ==
    IF protocol_id = 0 THEN b
    ELSE SyncHidden(
            ApplyValues([b EXCEPT !.loading = TRUE], table[protocol_id].values, 1),
            AllTabIds, 1)

_load_existing_protocol(b, protocol_id, table) ==
    IF protocol_id = 0 THEN b
    ELSE SyncHidden(
            [ApplyValues([b EXCEPT !.loading = TRUE], table[protocol_id].values, 1)
                EXCEPT !.loading = FALSE],
            AllTabIds, 1)

\* the dependencies of the form brought up to date: _update_hidden of every
\* trigger, then _recalculate_formulas (the tail of clear_current_tab, for
\* every tab)
DependencyEvaluator(b) == _recalculate_formulas(SyncHidden(b, AllTabIds, 1))

\* build(): _load_structure, _load_existing_protocol, _recalculate_formulas
build(forced, table) ==
    _recalculate_formulas(
        _load_existing_protocol(LoadedStructure, LoadedProtocolId(forced, table), table))


(***************************************************************************)
(* Actions: the user's operations on ProtocolArea and on the widgets of    *)
(* the form.  Each action is one event handled to completion.              *)
(***************************************************************************)
SetForm(b) ==
    /\ text' = b.text
    /\ shown' = b.shown
    /\ bg' = b.bg
    /\ _loading' = b.loading

\* the new builder shows its first tab, groups as _load_structure expands them
OpenForm(forced, table) ==
    /\ builder' = TRUE
    /\ SetForm(build(forced, table))
    /\ _protocol_id' = LoadedProtocolId(forced, table)
    /\ currentIndex' = 1
    /\ expanded' = InitialExpanded

\* ProtocolArea._start ("Начать")
\* the protocols a session may hold; the study type without a structure is
\* explored with one more
ProtocolLimit == IF study_type_id = 8 THEN MaxProtocols + 1 ELSE MaxProtocols

Start ==
    /\ Len(protocols) < ProtocolLimit
    /\ LET closed == finalize_open_protocols
           table == Append(closed, [finished |-> FALSE, values |-> << >>])
       IN  /\ protocols' = table
           /\ OpenForm(Len(table), table)
    /\ last' = "start"
    /\ UNCHANGED <<study_type_id, patient_gender>>

\* ProtocolArea.open_saved_protocol: a protocol picked in the patient's list
open_saved_protocol(protocol_id) ==
    /\ protocol_id \in 1..Len(protocols)
    /\ OpenForm(protocol_id, protocols)
    /\ last' = "open"
    /\ UNCHANGED <<study_type_id, patient_gender, protocols>>

\* the texts the user enters into a field
Inputs(fid) ==
    IF fid \in DOMAIN Structure.inputs THEN Structure.inputs[fid] ELSE {}

\* the user changes the text of a field they can see (types, pastes, picks
\* an item of the combo box); the formula line edits are read-only
UserEdit(fid, value) ==
    /\ builder
    /\ fid \in FieldIds
    /\ field_meta(fid).field_type # "formula"
    /\ isVisible(fid)
    /\ value \in Inputs(fid)
    /\ value # text[fid]
    /\ SetForm(ValueChanged([Form EXCEPT !.text[fid] = value], fid))
    /\ last' = "edit"
    /\ UNCHANGED <<study_type_id, patient_gender, protocols, builder,
                   _protocol_id, currentIndex, expanded>>

\* the user leaves a number field (editingFinished)
EditingFinished(fid) ==
    /\ builder
    /\ fid \in FieldIds
    /\ field_meta(fid).field_type = "number"
    /\ isVisible(fid)
    /\ SetForm(_normalize_number(Form, fid))
    /\ last' = "finish"
    /\ UNCHANGED <<study_type_id, patient_gender, protocols, builder,
                   _protocol_id, currentIndex, expanded>>

\* the user selects another tab
SelectTab(index) ==
    /\ builder
    /\ index \in 1..TabCount
    /\ index # currentIndex
    /\ currentIndex' = index
    /\ last' = "view"
    /\ UNCHANGED <<study_type_id, patient_gender, protocols, builder, text,
                   shown, bg, _loading, _protocol_id, expanded>>

\* CollapsibleGroupBox._on_toggled
_on_toggled(group_id) ==
    /\ builder
    /\ group_id \in GroupIds
    /\ currentIndex \in 1..TabCount
    /\ \E i \in 1..Len(Structure.groups) :
          Structure.groups[i].id = group_id
          /\ Structure.groups[i].tab_id = TabIdAt(currentIndex)
    /\ expanded' = [expanded EXCEPT ![group_id] = ~@]
    /\ last' = "view"
    /\ UNCHANGED <<study_type_id, patient_gender, protocols, builder, text,
                   shown, bg, _loading, _protocol_id, currentIndex>>

\* the loop of clear_current_tab: set_str("") on every field of the tab
RECURSIVE ClearFields(_, _, _)
ClearFields(b, tab_id, i) ==
    IF i > Len(FieldOrder) THEN b
    ELSE IF field_meta(FieldOrder[i]).tab_id # tab_id
         THEN ClearFields(b, tab_id, i + 1)
         ELSE ClearFields(set_str(b, FieldOrder[i], << >>), tab_id, i + 1)

\* a variant that leaves before the loading flag is reset
clear_current_tab_late_guard(b) == [b EXCEPT !.loading = TRUE]

clear_current_tab(b) ==
    IF currentIndex \notin 1..TabCount THEN b
    ELSE LET tab_id == TabIdAt(currentIndex)
         IN  _recalculate_formulas(
                SyncHidden(
                    [ClearFields([b EXCEPT !.loading = TRUE], tab_id, 1)
                        EXCEPT !.loading = FALSE],
                    {tab_id}, 1))

\* ProtocolArea._clear ("Очистить")
Clear ==
    /\ builder
    /\ SetForm(clear_current_tab(Form))
    /\ last' = "clear"
    /\ UNCHANGED <<study_type_id, patient_gender, protocols, builder,
                   _protocol_id, currentIndex, expanded>>

\* a variant that skips no field
MissingRequired_no_skip ==
    {f \in FieldIds : field_meta(f).required /\ IsBlank(text[f])}

\* the required fields _save reports as missing
MissingRequired ==
    {f \in FieldIds :
        /\ field_meta(f).required
        /\ ~(field_meta(f).is_hidden /\ ~isVisible(f))
        /\ IsBlank(text[f])}

\* ProtocolArea._save ("Сохранить"), past the required-field check
Save ==
    /\ builder
    /\ MissingRequired = {}
    /\ protocols' = save_protocol(_protocol_id, collect_values, FALSE)
    /\ _protocol_id' = SavedId(_protocol_id)
    /\ last' = "save"
    /\ UNCHANGED <<study_type_id, patient_gender, builder, text, shown, bg,
                   _loading, currentIndex, expanded>>

\* a variant of the failing save that shows every field before the write
SaveFails_shows_all ==
    /\ builder
    /\ MissingRequired = {}
    /\ shown' = [f \in FieldIds |-> TRUE]
    /\ last' = "savefail"
    /\ UNCHANGED <<study_type_id, patient_gender, protocols, builder, text,
                   bg, _loading, _protocol_id, currentIndex, expanded>>

\* ProtocolArea._save when the write to the store raises: the exception
\* leaves the slot, the transaction is not committed
SaveFails ==
    /\ builder
    /\ MissingRequired = {}
    /\ last' = "savefail"
    /\ UNCHANGED <<study_type_id, patient_gender, protocols, builder, text,
                   shown, bg, _loading, _protocol_id, currentIndex, expanded>>

\* ProtocolArea._print ("Печать"): the values are saved and the protocol is
\* finished; print_current is then called without its keyword argument
\* device_id, the TypeError leaves the slot, and the form stays as it is
_print ==
    /\ builder
    /\ protocols' = save_protocol(_protocol_id, collect_values, TRUE)
    /\ _protocol_id' = SavedId(_protocol_id)
    /\ last' = "print"
    /\ UNCHANGED <<study_type_id, patient_gender, builder, text, shown, bg,
                   _loading, currentIndex, expanded>>

Blank == [f \in FieldIds |-> << >>]

InitForm ==
    /\ protocols = << >>
    /\ builder = FALSE
    /\ text = Blank
    /\ shown = [f \in FieldIds |-> TRUE]
    /\ bg = [f \in FieldIds |-> FALSE]
    /\ _loading = FALSE
    /\ _protocol_id = 0
    /\ currentIndex = 1
    /\ expanded = InitialExpanded
    /\ last = "none"

\* a session on study type 1 (triggers, hidden fields, the value store)
Init ==
    /\ study_type_id = 1
    /\ patient_gender = "m"
    /\ InitForm

\* a session on study type 2 (formula fields)
InitFormula ==
    /\ study_type_id = 2
    /\ patient_gender = "m"
    /\ InitForm

\* a session on study type 3 (references with a common prefix)
InitSum ==
    /\ study_type_id = 3
    /\ patient_gender = "m"
    /\ InitForm

\* sessions on study type 4 (reference ranges, two tabs), for a male and
\* for a female patient
InitRange ==
    /\ study_type_id = 4
    /\ patient_gender \in {"m", "f"}
    /\ InitForm

\* a session on study type 5 (formulas that cannot be evaluated)
InitFail ==
    /\ study_type_id = 5
    /\ patient_gender = "m"
    /\ InitForm

\* a session on study type 6 (formulas over formula fields)
InitChain ==
    /\ study_type_id = 6
    /\ patient_gender = "m"
    /\ InitForm

\* a session on study type 7 (a required hidden field)
InitRequired ==
    /\ study_type_id = 7
    /\ patient_gender = "m"
    /\ InitForm

\* sessions on study types 8, 9 and 10 (no structure; triggers in a chain; a
\* formula over a long-text field)
InitLink ==
    /\ study_type_id \in {8, 9, 10}
    /\ patient_gender = "m"
    /\ InitForm

Next ==
    \/ Start
    \/ \E pid \in 1..ProtocolLimit : open_saved_protocol(pid)
    \/ \E fid \in FieldIds : \E value \in Inputs(fid) : UserEdit(fid, value)
    \/ \E fid \in FieldIds : EditingFinished(fid)
    \/ \E index \in 1..TabCount : SelectTab(index)
    \/ \E group_id \in GroupIds : _on_toggled(group_id)
    \/ Clear
    \/ Save
    \/ SaveFails
    \/ _print

Spec == Init /\ [][Next]_vars

SpecFormula == InitFormula /\ [][Next]_vars

SpecSum == InitSum /\ [][Next]_vars

SpecRange == InitRange /\ [][Next]_vars

SpecFail == InitFail /\ [][Next]_vars

SpecChain == InitChain /\ [][Next]_vars

SpecRequired == InitRequired /\ [][Next]_vars

SpecLink == InitLink /\ [][Next]_vars

(***************************************************************************)
(* Properties.  A state with builder set is a quiescent state of an open   *)
(* form: every action handles its event to completion.                     *)
(***************************************************************************)
\* H is hidden by default and wired to a trigger that is a choice field of
\* the structure with a non-empty option list
WiredToChoice(h) ==
    /\ field_meta(h).is_hidden
    /\ field_meta(h).trigger_field_id \in FieldIds
    /\ field_meta(field_meta(h).trigger_field_id).field_type = "choice"
    /\ Len(Items(field_meta(h).trigger_field_id)) > 0

\* the trigger condition of H: the trimmed value of its trigger is non-empty
\* and is not the first option
TriggerHolds(h) ==
    /\ Strip(text[field_meta(h).trigger_field_id]) # << >>
    /\ Strip(text[field_meta(h).trigger_field_id])
          # Items(field_meta(h).trigger_field_id)[1]

\* C1: in every quiescent state a hidden-by-default field whose trigger is a
\* choice field with options is visible iff the trimmed value of the trigger
\* is non-empty and differs from the first option (the trigger value stored
\* on the field has no part in it).
C1_TriggerRule ==
    builder =>
        \A h \in FieldIds : WiredToChoice(h) => (shown[h] <=> TriggerHolds(h))

\* C1 witness: the trigger holds "A", the stored trigger value is "B", and
\* the hidden field is shown after the edit.
C1_ShownOnOtherOption ==
    /\ builder /\ last = "edit"
    /\ text[1] = s_A /\ field_meta(2).trigger_value = s_B /\ shown[2]

\* C2: collect_values has no entry for a hidden-by-default field whose
\* trigger condition does not hold, whatever value the field holds.
C2_HiddenNotCollected ==
    builder =>
        \A h \in FieldIds :
            (WiredToChoice(h) /\ ~TriggerHolds(h)) => h \notin DOMAIN collect_values

\* C2 witness: a save made while the hidden field holds "x" and its trigger
\* holds the first option.
C2_HiddenHoldsValueAtSave ==
    /\ builder /\ last = "save"
    /\ text[1] = s_none /\ text[2] = s_x /\ 2 \notin DOMAIN collect_values

\* C3: collect_values has an entry for every field that is not hidden by
\* default and for every hidden-by-default field whose trigger condition
\* holds, whichever tab is selected and whether or not its group is collapsed.
C3_VisibleCollected ==
    builder =>
        \A f \in FieldIds :
            (~field_meta(f).is_hidden \/ (WiredToChoice(f) /\ TriggerHolds(f)))
                => f \in DOMAIN collect_values

\* C4: when the form just saved is opened again from its record,
\* collect_values of the fresh form equals collect_values at the save.
C4_RoundTrip ==
    [][(last = "save" /\ last' = "open" /\ _protocol_id' = _protocol_id)
          => collect_values' = collect_values]_vars

\* C5: after a save the stored values of the protocol are exactly the
\* entries of the collected map whose value is not blank.
C5_StoredIsCollected ==
    (builder /\ last = "save") =>
        protocols[_protocol_id].values =
            [f \in {g \in DOMAIN collect_values : Strip(collect_values[g]) # << >>}
                |-> collect_values[f]]

\* C6: an edit that changes the value of a trigger field leaves the value of
\* every hidden field wired to it, formula fields apart, as it was.
C6_ToggleKeepsValue ==
    [][\A h \in FieldIds :
          (/\ last' = "edit"
           /\ WiredToChoice(h)
           /\ field_meta(h).field_type # "formula"
           /\ text'[field_meta(h).trigger_field_id]
                 # text[field_meta(h).trigger_field_id])
            => text'[h] = text[h]]_vars

\* C6 witness: after an edit the trigger holds the first option and the
\* hidden field, no longer shown, still holds "x".
C6_HiddenKeepsValue ==
    /\ builder /\ last = "edit"
    /\ text[1] = s_none /\ ~shown[2] /\ text[2] = s_x /\ text[3] = << >>

\* C7: after an edit of a number, string or choice field and after open,
\* every formula field with a formula holds the result of its formula over
\* the current values of the fields (empty when there is no result).
C7_FormulasCurrent ==
    (builder /\ last \in {"edit", "open"}) =>
        \A f \in FieldIds :
            (field_meta(f).field_type = "formula" /\ field_meta(f).formula # << >>)
                => text[f] = ResultText(field_meta(f),
                                        _evaluate_formula(Form, field_meta(f).formula))

\* C8: after the formulas were computed (build, an edit, a normalisation, a
\* tab clear), a formula field one of whose references is blank, holds only
\* white space or resolves to no field is empty.
C8_BlankReferenceClears ==
    (builder /\ last \in {"start", "open", "edit", "finish", "clear"}) =>
        \A f \in FieldIds :
            (/\ field_meta(f).field_type = "formula"
             /\ field_meta(f).formula # << >>
             /\ RefsFail(Form, FindRefs(field_meta(f).formula, 1)))
                => text[f] = << >>

\* C8 witness: the record holds a result stored for W / (X * X); an edit
\* has left W holding only a space, X holds "1,80", and the field is empty.
C8_ClearedAfterResult ==
    /\ builder /\ last = "edit" /\ _protocol_id # 0
    /\ 3 \in DOMAIN protocols[_protocol_id].values
    /\ text[1] = s_blank /\ text[2] = s_1_80 /\ text[3] = << >>

\* C9: a formula that uses sqrt over referenced fields that all hold numbers
\* has a result: the formula field is not empty once it was computed.
C9_FunctionsEvaluate ==
    (builder /\ last \in {"start", "open", "edit", "finish", "clear"}) =>
        \A f \in FieldIds :
            (/\ field_meta(f).field_type = "formula"
             /\ field_meta(f).formula = f_sqrt
             /\ ParseFloat(CommaToDot(Strip(text[2]))) # NoNum)
                => text[f] # << >>

\* C10: the field of the formula W + Wa, both holding decimal-comma numbers,
\* holds their sum with the one decimal of its precision and a decimal comma.
C10_SumIsArithmetic ==
    (/\ builder /\ last = "edit"
     /\ ParseFloat(CommaToDot(Strip(text[1]))) # NoNum
     /\ ParseFloat(CommaToDot(Strip(text[2]))) # NoNum)
        => text[3] = DotToComma(FormatFixed(
                        RAdd(ParseFloat(CommaToDot(Strip(text[1]))),
                             ParseFloat(CommaToDot(Strip(text[2])))), 1))

C12_EvaluatorIdempotent ==
    builder =>
        /\ DependencyEvaluator(DependencyEvaluator(Form)).text
              = DependencyEvaluator(Form).text
        /\ DependencyEvaluator(DependencyEvaluator(Form)).shown
              = DependencyEvaluator(Form).shown
        /\ DependencyEvaluator(DependencyEvaluator(Form)).bg
              = DependencyEvaluator(Form).bg

\* C13: whatever text the user enters into a field they can see, the slots
\* the change starts come to an end: fewer than MaxCalls slots are invoked,
\* the rewrites they make start no second pass of the formula
\* recalculation, and the form is left with _loading unset.
C13_EditTerminates ==
    builder =>
        \A fid \in FieldIds : \A value \in Inputs(fid) :
            (/\ field_meta(fid).field_type # "formula"
             /\ isVisible(fid)
             /\ value # text[fid])
                => /\ ValueChanged([Form EXCEPT !.text[fid] = value], fid).calls
                        < MaxCalls
                   /\ ValueChanged([Form EXCEPT !.text[fid] = value], fid).passes
                        <= 1
                   /\ ~ValueChanged([Form EXCEPT !.text[fid] = value], fid).loading

\* C13 witness: the user has entered "1" into the number field X, which is
\* also a trigger: the recalculation has given C = "2", the range check has
\* rewritten X to "1,0", and the trigger update started by that rewrite has
\* shown H.
C13_RewriteRanTrigger ==
    /\ builder /\ last = "edit"
    /\ text[1] = <<"1", ",", "0">> /\ text[5] = <<"2">> /\ shown[2]

C15_LoadThenRecalculateOnce ==
    \A pid \in 1..Len(protocols) :
        /\ ApplyValues([LoadedStructure EXCEPT !.loading = TRUE],
                       protocols[pid].values, 1).loading
        /\ ApplyValues([LoadedStructure EXCEPT !.loading = TRUE],
                       protocols[pid].values, 1).passes = 0
        /\ ApplyValues([LoadedStructure EXCEPT !.loading = TRUE],
                       protocols[pid].values, 1).checks = 0
        /\ \A f \in DOMAIN protocols[pid].values :
              ApplyValues([LoadedStructure EXCEPT !.loading = TRUE],
                          protocols[pid].values, 1).text[f]
                = protocols[pid].values[f]
        /\ build(pid, protocols).passes = 1
        /\ ~build(pid, protocols).loading

\* C15 witness: the protocol that was opened holds a value of N and a value
\* of Q stored when N was different, so the recalculation after the load
\* has replaced the stored text of Q.
C15_OpenedAndRecalculated ==
    /\ builder /\ last = "open"
    /\ {1, 2} \subseteq DOMAIN protocols[_protocol_id].values
    /\ text[2] # protocols[_protocol_id].values[2]

\* C16: after an edit of the number field (which also recomputes the formula
\* field), and for the formula field after a start, an open or a clear, a
\* field whose text is a number and whose range for the patient's gender
\* (the female pair for a female patient, else the male pair) has both
\* bounds is highlighted exactly if the number is below the minimum or
\* above the maximum.
C16_FlagIffOutside ==
    builder =>
        \A f \in FieldIds :
            (/\ \/ last = "edit"
                   /\ field_meta(f).field_type \in {"number", "formula"}
                \/ last \in {"start", "open", "clear"}
                   /\ field_meta(f).field_type = "formula"
             /\ ParseFloat(CommaToDot(Strip(text[f]))) # NoNum
             /\ IF patient_gender = "f"
                THEN field_meta(f).ref_female_min # NoNum
                     /\ field_meta(f).ref_female_max # NoNum
                ELSE field_meta(f).ref_male_min # NoNum
                     /\ field_meta(f).ref_male_max # NoNum)
                => (bg[f] <=>
                      IF patient_gender = "f"
                      THEN ~(RLeq(field_meta(f).ref_female_min,
                                  ParseFloat(CommaToDot(Strip(text[f]))))
                             /\ RLeq(ParseFloat(CommaToDot(Strip(text[f]))),
                                     field_meta(f).ref_female_max))
                      ELSE ~(RLeq(field_meta(f).ref_male_min,
                                  ParseFloat(CommaToDot(Strip(text[f]))))
                             /\ RLeq(ParseFloat(CommaToDot(Strip(text[f]))),
                                     field_meta(f).ref_male_max)))

\* C16 witness: for a female patient the user has entered "5" into N: it is
\* the maximum of the male range and below the minimum of the female range,
\* and N is highlighted.
C16_FemaleBelowMinimum ==
    /\ builder /\ last = "edit" /\ patient_gender = "f"
    /\ text[1] = <<"5", ",", "0">> /\ bg[1]

\* C17: a number or formula field that is empty is not highlighted,
\* whichever operation emptied it.
C17_EmptyNotFlagged ==
    builder =>
        \A f \in FieldIds :
            (field_meta(f).field_type \in {"number", "formula"}
             /\ text[f] = << >>) => ~bg[f]

\* C18: a required hidden-by-default field whose trigger condition does not
\* hold is not among the fields Save reports as missing, also when it is
\* empty.
C18_HiddenRequiredSkipped ==
    builder =>
        \A h \in FieldIds :
            (field_meta(h).required /\ WiredToChoice(h) /\ ~TriggerHolds(h))
                => h \notin MissingRequired

\* C18 witness: a save made while the required field is hidden by its
\* trigger (the first option) and empty.
C18_SavedWithHiddenEmpty ==
    /\ builder /\ last = "save"
    /\ text[1] = s_none /\ text[2] = << >>
    /\ field_meta(2).required /\ ~shown[2]

\* C19: every required field that is not hidden by default, or whose trigger
\* condition holds, and whose trimmed value is empty is among the fields
\* Save reports as missing, whichever tab is selected and whether or not its
\* group is collapsed.
C19_VisibleRequiredReported ==
    builder =>
        \A f \in FieldIds :
            (/\ field_meta(f).required
             /\ ~field_meta(f).is_hidden \/ (WiredToChoice(f) /\ TriggerHolds(f))
             /\ Strip(text[f]) = << >>)
                => f \in MissingRequired

\* C20: clearing the current tab leaves the text of every field of the other
\* tabs as it was.
C20_ClearKeepsOtherTabs ==
    [][last' = "clear" =>
         \A f \in FieldIds :
             field_meta(f).tab_id # TabIdAt(currentIndex) => text'[f] = text[f]]_vars

\* C21: once the current tab was cleared, every field of that tab is empty.
C21_ClearedTabEmpty ==
    (builder /\ last = "clear" /\ currentIndex \in 1..TabCount) =>
        \A f \in FieldIds :
            field_meta(f).tab_id = TabIdAt(currentIndex) => text[f] = << >>

\* C22: a hidden-by-default field whose trigger is not a choice field is
\* shown in every state of an open form, and is collected.
C22_MalformedTriggerShown ==
    builder =>
        \A h \in FieldIds :
            (/\ field_meta(h).is_hidden
             /\ field_meta(h).trigger_field_id \in FieldIds
             /\ field_meta(field_meta(h).trigger_field_id).field_type # "choice")
                => shown[h]

\* C23: a study type without tabs opens to a form with no field: nothing is
\* collected and clearing the current tab changes nothing.
C23_NoStructureEmptyBinding ==
    (study_type_id = 8 /\ builder) =>
        /\ FieldIds = {}
        /\ DOMAIN collect_values = {}
        /\ LET c == clear_current_tab(Form)
           IN  c.text = text /\ c.shown = shown /\ c.bg = bg
               /\ c.loading = _loading

C23_NoStructureCleared ==
    study_type_id = 8 /\ builder /\ last = "clear" /\ ~_loading

C25_FormulaFollowsEdit ==
    (builder /\ last = "edit") => _recalculate_formulas(Form).text = text

\* C26: in every state of an open form, a hidden-by-default field wired to a
\* choice field is shown exactly when the text of that choice field is
\* neither empty nor its first option, whether or not the choice field is
\* itself shown.
C26_VisibilityFromTriggerValue ==
    builder =>
        \A h \in FieldIds :
            LET t == field_meta(h).trigger_field_id
            IN  (/\ field_meta(h).is_hidden
                 /\ t \in FieldIds
                 /\ field_meta(t).field_type = "choice"
                 /\ Len(Items(t)) > 0)
                    => (shown[h] <=>
                            Strip(text[t]) \notin {<< >>, Strip(Items(t)[1])})

C26_ShownBehindHiddenTrigger ==
    /\ builder
    /\ study_type_id = 9
    /\ last = "edit"
    /\ ~shown[2]
    /\ shown[3]

\* C27: once a saved protocol was opened, every number field carries the
\* range flag that a check of its loaded value gives.
C27_LoadedNumberChecked ==
    (builder /\ last = "open") =>
        \A f \in FieldIds :
            field_meta(f).field_type = "number"
                => bg[f] = _check_reference(Form, f).bg[f]

\* C28: every step that writes the collected values of the open form to the
\* store, by Save or by Print, starts in a state where no visible required
\* field is empty.
C28_WriteAfterValidation ==
    [][last' \in {"save", "print"} => MissingRequired = {}]_vars

\* C29: once the form was printed, no later Save or Clear changes the stored
\* values of a finished protocol.
C29_FinishedNotOverwritten ==
    [][last' \in {"save", "clear"} =>
          \A i \in 1..Len(protocols) :
              protocols[i].finished => protocols'[i].values = protocols[i].values]_vars

\* C30: the store never holds more than one unfinished protocol of the
\* patient and study type.
C30_AtMostOneDraft ==
    Cardinality({i \in 1..Len(protocols) : ~protocols[i].finished}) <= 1

C30_SecondProtocolSaved ==
    /\ Len(protocols) = 2
    /\ protocols[1].finished
    /\ ~protocols[2].finished
    /\ _protocol_id = 2
    /\ last = "save"

=============================================================================
